---- MODULE Spec2Model ----
(***************************************************************************)
(* A model of the RAG-Agent indexing and retrieval pipelines:              *)
(*   src/src/indexPipeline.py      chunking, process_documents, loading    *)
(*   src/src/retrievalPipeline.py  the interactive retrieval main          *)
(*                                                                         *)
(* Text is a sequence of one-character strings over a four-letter          *)
(* alphabet that keeps the character classes the code distinguishes:       *)
(*   "a"  an ordinary (lower-case) character                               *)
(*   "A"  an upper-case letter or digit        ([A-Z0-9] of the regex)     *)
(*   "."  a sentence-terminal punctuation mark ([.!?] of the regex)        *)
(*   " "  whitespace                           (\s, and what strip() cuts) *)
(* The chunking tunables are module-level values of the program; they are  *)
(* scaled down and drawn from every valid configuration in Init.           *)
(***************************************************************************)
EXTENDS Integers, Sequences, FiniteSets, TLC

VARIABLES
    CHUNK_MAX_CHARS,      \* indexPipeline.py:13
    CHUNK_MIN_CHARS,      \* indexPipeline.py:14
    CHUNK_OVERLAP_CHARS,  \* indexPipeline.py:15
    \* ---- the chunking of one page ----
    caller,               \* who runs the page pipeline
    page_raw,             \* page["text"] as extracted
    page_text,            \* the argument of chunk_page_text
    sentences,            \* result of split_into_sentences
    sent_i,               \* position of the for loop over sentences
    chunks,               \* build_chunks_from_sentences: chunks
    current,              \* build_chunks_from_sentences: current
    current_len,          \* build_chunks_from_sentences: current_len
    built,                \* chunks as they stood when the tail merge began
    seeded,               \* indices i of chunks whose tail seeded chunk i+1
    cpc,                  \* position inside the page pipeline
    \* ---- a run of indexPipeline.main or retrievalPipeline.main ----
    prog,                 \* which main runs
    ipc,                  \* position inside that main
    dir_ok,               \* the documents directory exists and is a directory
    pdfs,                 \* sorted(doc_dir.glob("*.pdf")), as file names
    doc_dir,              \* the kind of value handed to process_documents
    doc_i,                \* position of the for loop over the pdfs
    total_pages,          \* len(pages) of the document being processed
    page_i,               \* page["index"] of the next page
    chunk_counter,        \* process_documents: chunk_counter
    records,              \* process_documents: records
    collection,           \* the ids held by the Chroma collection
    loaded,               \* what load_data_to_chroma was given and returned
    args_b,               \* the -b flag of the retrieval main
    prompted,             \* the question prompt was shown
    answer,               \* what the retrieval main returns
    error                 \* the exception that ended the run, or "none"

chunkVars == <<caller, page_raw, page_text, sentences, sent_i, chunks, current,
               current_len, built, seeded, cpc>>
indexVars == <<prog, ipc, dir_ok, pdfs, doc_dir, doc_i, total_pages, page_i,
               chunk_counter, records, collection, loaded, args_b, prompted,
               answer, error>>
cfgVars == <<CHUNK_MAX_CHARS, CHUNK_MIN_CHARS, CHUNK_OVERLAP_CHARS>>
vars == <<cfgVars, chunkVars, indexVars>>

----------------------------------------------------------------------------
(* Bounds of the model *)

MaxChunkMax == 3
MaxTextLen == 6

Alphabet == {"a", "A", ".", " "}

USE_SENTENCE_SPLIT == TRUE

----------------------------------------------------------------------------
(* Strings *)

IsSpace(c) == c = " "
IsTerminal(c) == c = "."
IsUpperOrDigit(c) == c = "A"

StringsOver(alphabet, n) == UNION {[1..k -> alphabet] : k \in 0..n}

StringsUpTo(n) == StringsOver(Alphabet, n)

RECURSIVE LStrip(_)
LStrip(s) ==
    IF s = <<>> THEN <<>>
    ELSE IF IsSpace(Head(s)) THEN LStrip(Tail(s)) ELSE s

RECURSIVE RStrip(_)
RStrip(s) ==
    IF s = <<>> THEN <<>>
    ELSE IF IsSpace(s[Len(s)]) THEN RStrip(SubSeq(s, 1, Len(s) - 1)) ELSE s

\* str.strip()
Strip(s) == RStrip(LStrip(s))

\* " ".join(parts)
RECURSIVE Join(_)
Join(parts) ==
    IF parts = <<>> THEN <<>>
    ELSE IF Len(parts) = 1 THEN parts[1]
    ELSE parts[1] \o <<" ">> \o Join(Tail(parts))

\* s[-k:] for k > 0
LastChars(s, k) ==
    IF k >= Len(s) THEN s ELSE SubSeq(s, Len(s) - k + 1, Len(s))

\* sum(len(s) + 1 for s in parts)
RECURSIVE SumLenPlusOne(_)
SumLenPlusOne(parts) ==
    IF parts = <<>> THEN 0
    ELSE Len(parts[1]) + 1 + SumLenPlusOne(Tail(parts))

----------------------------------------------------------------------------
(* split_into_sentences *)

\* End of the whitespace run that starts at i: the first index past it.
RECURSIVE RunEnd(_, _)
RunEnd(text, i) ==
    IF i <= Len(text) /\ IsSpace(text[i]) THEN RunEnd(text, i + 1) ELSE i

\* A match of (?<=[.!?])\s+(?=[A-Z0-9]) starting at index i.
BoundaryAt(text, i) ==
    /\ i > 1
    /\ i <= Len(text)
    /\ IsTerminal(text[i - 1])
    /\ IsSpace(text[i])
    /\ RunEnd(text, i) <= Len(text)
    /\ IsUpperOrDigit(text[RunEnd(text, i)])

\* regex.split(text): the pieces between the matches, scanning from i with
\* the current piece starting at start.
RECURSIVE RegexSplit(_, _, _)
RegexSplit(text, i, start) ==
    IF i > Len(text) THEN <<SubSeq(text, start, Len(text))>>
    ELSE IF BoundaryAt(text, i)
         THEN <<SubSeq(text, start, i - 1)>>
              \o RegexSplit(text, RunEnd(text, i), RunEnd(text, i))
         ELSE RegexSplit(text, i + 1, start)

\* The loop of lines 124-127: strip each part, keep the non-empty ones.
RECURSIVE StripParts(_)
StripParts(parts) ==
    IF parts = <<>> THEN <<>>
    ELSE LET part == Strip(parts[1])
         IN (IF part # <<>> THEN <<part>> ELSE <<>>) \o StripParts(Tail(parts))

split_into_sentences(text) ==
    IF ~USE_SENTENCE_SPLIT THEN <<text>>
    ELSE LET found == StripParts(RegexSplit(text, 1, 1))
         IN IF found # <<>> THEN found ELSE <<text>>

----------------------------------------------------------------------------
(* build_chunks_from_sentences *)

\* Lines 143-145: the fixed-width slices of an oversized sentence, each
\* stripped, from offset start (0-based as in range()).
RECURSIVE HardSplit(_, _)
HardSplit(sent, start) ==
    IF start >= Len(sent) THEN <<>>
    ELSE LET stop == IF start + CHUNK_MAX_CHARS > Len(sent) THEN Len(sent)
                     ELSE start + CHUNK_MAX_CHARS
             piece == SubSeq(sent, start + 1, stop)
         IN <<Strip(piece)>> \o HardSplit(sent, start + CHUNK_MAX_CHARS)

\* Line 148: the sentence fits into the accumulator.
Fits(st, sent) == st.current_len + Len(sent) + 1 <= CHUNK_MAX_CHARS

\* Lines 151-160: the overflow path finalizes a chunk and seeds the next.
SeedsOverlap(st, sent) ==
    /\ Len(sent) <= CHUNK_MAX_CHARS
    /\ ~Fits(st, sent)
    /\ st.current # <<>>
    /\ CHUNK_OVERLAP_CHARS > 0

\* One iteration of the for loop, lines 136-165.
LoopBody(st, sent) ==
    LET slen == Len(sent) IN
    IF slen > CHUNK_MAX_CHARS
    THEN LET flushed == IF st.current # <<>>
                        THEN Append(st.chunks, Strip(Join(st.current)))
                        ELSE st.chunks
         IN [chunks |-> flushed \o HardSplit(sent, 0),
             current |-> <<>>,
             current_len |-> IF st.current # <<>> THEN 0 ELSE st.current_len]
    ELSE IF Fits(st, sent)
    THEN [chunks |-> st.chunks,
          current |-> Append(st.current, sent),
          current_len |-> st.current_len + slen + 1]
    ELSE LET chunk_text == Strip(Join(st.current))
             finalized == IF st.current # <<>>
                          THEN Append(st.chunks, chunk_text)
                          ELSE st.chunks
             overlap == LastChars(chunk_text, CHUNK_OVERLAP_CHARS)
             carried == IF st.current # <<>>
                        THEN (IF CHUNK_OVERLAP_CHARS > 0 THEN <<overlap>>
                              ELSE <<>>)
                        ELSE st.current
             next == Append(carried, sent)
         IN [chunks |-> finalized,
             current |-> next,
             current_len |-> SumLenPlusOne(next)]

\* Lines 167-168: the accumulator left after the loop becomes the last chunk.
FlushCurrent(cs, cur) ==
    IF cur # <<>> THEN Append(cs, Strip(Join(cur))) ELSE cs

\* MergeTail with the test of line 174 made strict.
MergeTail_strict(cs) ==
    IF Len(cs) > 1 /\ Len(cs[Len(cs)]) < CHUNK_MIN_CHARS
    THEN LET prev == cs[Len(cs) - 1]
             merged == prev \o <<" ">> \o cs[Len(cs)]
         IN IF Len(merged) < CHUNK_MAX_CHARS
            THEN Append(SubSeq(cs, 1, Len(cs) - 2), Strip(merged))
            ELSE cs
    ELSE cs

\* Lines 170-177: merge a tiny tail chunk into its predecessor.
MergeTail(cs) ==
    IF Len(cs) > 1 /\ Len(cs[Len(cs)]) < CHUNK_MIN_CHARS
    THEN LET prev == cs[Len(cs) - 1]
             merged == prev \o <<" ">> \o cs[Len(cs)]
         IN IF Len(merged) <= CHUNK_MAX_CHARS
            THEN Append(SubSeq(cs, 1, Len(cs) - 2), Strip(merged))
            ELSE cs
    ELSE cs

RECURSIVE BuildLoop(_, _)
BuildLoop(st, sents) ==
    IF sents = <<>> THEN st
    ELSE BuildLoop(LoopBody(st, Head(sents)), Tail(sents))

build_chunks_from_sentences(sents) ==
    LET st == BuildLoop([chunks |-> <<>>, current |-> <<>>, current_len |-> 0],
                        sents)
    IN MergeTail(FlushCurrent(st.chunks, st.current))

chunk_page_text(text) == build_chunks_from_sentences(split_into_sentences(text))


----------------------------------------------------------------------------
(* The configurations *)

ValidConfig(max, min, overlap) ==
    /\ max \in 1..MaxChunkMax
    /\ min \in 0..(max - 1)
    /\ overlap \in 0..(max - 1)

ConfigInit ==
    \E max \in 1..MaxChunkMax, min \in 0..MaxChunkMax, overlap \in 0..MaxChunkMax :
        /\ ValidConfig(max, min, overlap)
        /\ CHUNK_MAX_CHARS = max
        /\ CHUNK_MIN_CHARS = min
        /\ CHUNK_OVERLAP_CHARS = overlap

\* The configurations of the runs of the mains.  Their pages are single
\* sentences, so the overlap is never used and the minimum only decides the
\* tail merge of hard-split slices: both are kept at zero there.
IndexConfigInit ==
    \E max \in 1..MaxChunkMax :
        /\ ValidConfig(max, 0, 0)
        /\ CHUNK_MAX_CHARS = max
        /\ CHUNK_MIN_CHARS = 0
        /\ CHUNK_OVERLAP_CHARS = 0

----------------------------------------------------------------------------
(* The page pipeline: chunk_page_text called directly on a page text, or   *)
(* from the page loop of process_documents.                                *)

\* SkipPage with the test of line 210 left out.
SkipPage_never(text) == FALSE

\* Line 210: a page whose stripped text is empty is skipped.
SkipPage(text) == text = <<>>

ChunkInit ==
    /\ caller \in {"chunk_page_text", "process_documents"}
    /\ page_raw \in StringsUpTo(MaxTextLen)
    /\ page_text = IF caller = "chunk_page_text" THEN page_raw ELSE <<>>
    /\ sentences = <<>>
    /\ sent_i = 0
    /\ chunks = <<>>
    /\ current = <<>>
    /\ current_len = 0
    /\ built = <<>>
    /\ seeded = {}
    /\ cpc = IF caller = "chunk_page_text" THEN "split" ELSE "page"

ChunkIdle ==
    /\ caller = "none"
    /\ page_raw = <<>>
    /\ page_text = <<>>
    /\ sentences = <<>>
    /\ sent_i = 0
    /\ chunks = <<>>
    /\ current = <<>>
    /\ current_len = 0
    /\ built = <<>>
    /\ seeded = {}
    /\ cpc = "idle"

\* Lines 209-212: strip the page text, skip the page when nothing is left,
\* else hand the stripped text to chunk_page_text.
StripPage ==
    /\ cpc = "page"
    /\ LET text == Strip(page_raw)
       IN IF SkipPage(text)
          THEN /\ cpc' = "skipped"
               /\ UNCHANGED page_text
          ELSE /\ cpc' = "split"
               /\ page_text' = text
    /\ UNCHANGED <<caller, page_raw, sentences, sent_i, chunks, current,
                   current_len, built, seeded>>
    /\ UNCHANGED <<cfgVars, indexVars>>

\* Line 181.
CallSplit ==
    /\ cpc = "split"
    /\ sentences' = split_into_sentences(page_text)
    /\ sent_i' = 1
    /\ cpc' = "loop"
    /\ UNCHANGED <<caller, page_raw, page_text, chunks, current, current_len,
                   built, seeded>>
    /\ UNCHANGED <<cfgVars, indexVars>>

\* Lines 136-165, one sentence.
StepSentence ==
    /\ cpc = "loop"
    /\ sent_i <= Len(sentences)
    /\ LET st == [chunks |-> chunks, current |-> current,
                  current_len |-> current_len]
           nx == LoopBody(st, sentences[sent_i])
       IN /\ chunks' = nx.chunks
          /\ current' = nx.current
          /\ current_len' = nx.current_len
          /\ seeded' = IF SeedsOverlap(st, sentences[sent_i])
                       THEN seeded \cup {Len(nx.chunks)}
                       ELSE seeded
    /\ sent_i' = sent_i + 1
    /\ UNCHANGED <<caller, page_raw, page_text, sentences, built, cpc>>
    /\ UNCHANGED <<cfgVars, indexVars>>

\* Lines 167-168.
EndLoop ==
    /\ cpc = "loop"
    /\ sent_i > Len(sentences)
    /\ chunks' = FlushCurrent(chunks, current)
    /\ built' = FlushCurrent(chunks, current)
    /\ cpc' = "merge"
    /\ UNCHANGED <<caller, page_raw, page_text, sentences, sent_i, current,
                   current_len, seeded>>
    /\ UNCHANGED <<cfgVars, indexVars>>

\* Lines 170-177.
TailMerge ==
    /\ cpc = "merge"
    /\ chunks' = MergeTail(chunks)
    /\ cpc' = "done"
    /\ UNCHANGED <<caller, page_raw, page_text, sentences, sent_i, current,
                   current_len, built, seeded>>
    /\ UNCHANGED <<cfgVars, indexVars>>

----------------------------------------------------------------------------
(* process_documents, load_data_to_chroma and the two mains *)

MaxPageLen == 3
MaxPages == 2
MaxRecords == 4

batch_size == 5000

\* The page texts the extraction hands to process_documents: ordinary
\* characters and whitespace (the sentence splitter is exercised by Spec).
PageAlphabet == {"a", " "}

PageTexts == StringsOver(PageAlphabet, MaxPageLen)

PdfName(stem) == stem \o <<".", "p", "d", "f">>

\* The *.pdf files a documents directory may hold, in sorted order.
DirNames == <<PdfName(<<"a", "#", "p", "1">>), PdfName(<<"a">>)>>

Directories ==
    {<<>>, <<DirNames[1]>>, <<DirNames[2]>>, <<DirNames[1], DirNames[2]>>}

DigitChar == <<"0", "1", "2", "3", "4", "5", "6", "7", "8", "9">>

\* str(n) of a non-negative integer.
RECURSIVE Digits(_)
Digits(n) ==
    IF n < 10 THEN <<DigitChar[n + 1]>>
    ELSE Digits(n \div 10) \o <<DigitChar[(n % 10) + 1]>>

\* record_id with the page number left out of the identifier.
record_id_no_page(source_name, page_number, local_idx) ==
    source_name \o <<"#", "c">> \o Digits(local_idx + 1)

\* Line 227: f"{source_name}#p{page_number}#c{local_idx+1}"
record_id(source_name, page_number, local_idx) ==
    source_name \o <<"#", "p">> \o Digits(page_number)
                \o <<"#", "c">> \o Digits(local_idx + 1)

\* Lines 213-230: the records of one page, chunk_counter being the count
\* before the page.
PageRecords(source_name, page_number, page_chunks, counter) ==
    [k \in 1..Len(page_chunks) |->
        [id |-> record_id(source_name, page_number, k - 1),
         text |-> page_chunks[k],
         meta |-> [source_name |-> source_name,
                   page_number |-> page_number,
                   chunk_index |-> counter + k - 1,
                   page_chunk_index |-> k - 1,
                   page_total_chunks |-> Len(page_chunks),
                   approx_chars |-> Len(page_chunks[k])]]]

\* Line 190: Path(doc_dir) accepts a str or a path, and raises TypeError for
\* any other object.
PathAccepts(kind) == kind \in {"str", "Path"}

\* Lines 95-110: upsert the batches data[i:i+batch_size].
RECURSIVE UpsertBatches(_, _, _)
UpsertBatches(coll, data, i) ==
    IF i >= Len(data) THEN coll
    ELSE LET stop == IF i + batch_size > Len(data) THEN Len(data)
                     ELSE i + batch_size
             ids == {data[k].id : k \in (i + 1)..stop}
         IN UpsertBatches(coll \cup ids, data, i + batch_size)

\* Lines 75-116: the collection after the call, and the value returned.
load_data_to_chroma(coll, data) ==
    LET after == UpsertBatches(coll, data, 0)
    IN [collection |-> after, ret |-> Cardinality(after)]

\* What the collection may hold before the run: nothing, an id of an earlier
\* index of other documents, an id this run produces again.
PriorIds == {<<"o", "l", "d">>, record_id(DirNames[2], 1, 0)}

IndexInit ==
    /\ prog \in {"index_main", "retrieval_main"}
    /\ ipc = "start"
    /\ dir_ok \in BOOLEAN
    /\ pdfs \in Directories
    /\ doc_dir = "unset"
    /\ doc_i = 0
    /\ total_pages = 0
    /\ page_i = 0
    /\ chunk_counter = 0
    /\ records = <<>>
    /\ collection \in (IF prog = "retrieval_main" THEN SUBSET PriorIds
                       ELSE {{}})
    /\ loaded = [called |-> FALSE, n |-> 0, ret |-> 0]
    /\ args_b \in (IF prog = "retrieval_main" THEN BOOLEAN ELSE {FALSE})
    /\ prompted = FALSE
    /\ answer = "unset"
    /\ error = "none"

IndexIdle ==
    /\ prog = "none"
    /\ ipc = "idle"
    /\ dir_ok = FALSE
    /\ pdfs = <<>>
    /\ doc_dir = "unset"
    /\ doc_i = 0
    /\ total_pages = 0
    /\ page_i = 0
    /\ chunk_counter = 0
    /\ records = <<>>
    /\ collection = {}
    /\ loaded = [called |-> FALSE, n |-> 0, ret |-> 0]
    /\ args_b = FALSE
    /\ prompted = FALSE
    /\ answer = "unset"
    /\ error = "none"

\* indexPipeline.main, line 246: records = process_documents()
IndexMainStart ==
    /\ prog = "index_main"
    /\ ipc = "start"
    /\ doc_dir' = "Path"
    /\ ipc' = "process_documents"
    /\ UNCHANGED <<prog, dir_ok, pdfs, doc_i, total_pages, page_i,
                   chunk_counter, records, collection, loaded, args_b,
                   prompted, answer, error>>
    /\ UNCHANGED <<cfgVars, chunkVars>>

\* retrievalPipeline.main, lines 160-162: with -b or an empty collection,
\* indexPipeline.process_documents(collection) is called.
RetrievalMainStart ==
    /\ prog = "retrieval_main"
    /\ ipc = "start"
    /\ IF args_b \/ Cardinality(collection) = 0
       THEN /\ doc_dir' = "Collection"
            /\ ipc' = "process_documents"
       ELSE /\ doc_dir' = doc_dir
            /\ ipc' = "prompt"
    /\ UNCHANGED <<prog, dir_ok, pdfs, doc_i, total_pages, page_i,
                   chunk_counter, records, collection, loaded, args_b,
                   prompted, answer, error>>
    /\ UNCHANGED <<cfgVars, chunkVars>>

\* process_documents, lines 190-194.
ProcessDocumentsEnter ==
    /\ ipc = "process_documents"
    /\ IF ~PathAccepts(doc_dir)
       THEN /\ error' = "TypeError"
            /\ ipc' = "crashed"
            /\ UNCHANGED <<doc_i, records>>
       ELSE IF ~dir_ok
       THEN /\ error' = "FileNotFoundError"
            /\ ipc' = "crashed"
            /\ UNCHANGED <<doc_i, records>>
       ELSE /\ records' = <<>>
            /\ doc_i' = 1
            /\ ipc' = "docs"
            /\ UNCHANGED error
    /\ UNCHANGED <<prog, dir_ok, pdfs, doc_dir, total_pages, page_i,
                   chunk_counter, collection, loaded, args_b, prompted,
                   answer>>
    /\ UNCHANGED <<cfgVars, chunkVars>>

\* Lines 196-200: the extraction of a pdf fails and the pdf is skipped.
ExtractFails ==
    /\ ipc = "docs"
    /\ doc_i <= Len(pdfs)
    /\ doc_i' = doc_i + 1
    /\ UNCHANGED <<prog, ipc, dir_ok, pdfs, doc_dir, total_pages, page_i,
                   chunk_counter, records, collection, loaded, args_b,
                   prompted, answer, error>>
    /\ UNCHANGED <<cfgVars, chunkVars>>

\* Lines 196-205: the extraction succeeds with some number of pages.
ExtractPages ==
    /\ ipc = "docs"
    /\ doc_i <= Len(pdfs)
    /\ \E n \in 0..MaxPages : total_pages' = n
    /\ page_i' = 0
    /\ chunk_counter' = 0
    /\ ipc' = "pages"
    /\ UNCHANGED <<prog, dir_ok, pdfs, doc_dir, doc_i, records, collection,
                   loaded, args_b, prompted, answer, error>>
    /\ UNCHANGED <<cfgVars, chunkVars>>

\* Lines 207-230: one page of the document.
ProcessPage ==
    /\ ipc = "pages"
    /\ page_i < total_pages
    /\ \E raw \in PageTexts :
        LET page_number == page_i + 1
            text == Strip(raw)
            page_chunks == chunk_page_text(text)
        IN IF SkipPage(text)
           THEN UNCHANGED <<records, chunk_counter>>
           ELSE /\ Len(records) + Len(page_chunks) <= MaxRecords
                /\ records' = records \o PageRecords(pdfs[doc_i], page_number,
                                                     page_chunks, chunk_counter)
                /\ chunk_counter' = chunk_counter + Len(page_chunks)
    /\ page_i' = page_i + 1
    /\ UNCHANGED <<prog, ipc, dir_ok, pdfs, doc_dir, doc_i, total_pages,
                   collection, loaded, args_b, prompted, answer, error>>
    /\ UNCHANGED <<cfgVars, chunkVars>>

\* Line 231: the pages of the document are done.
EndPages ==
    /\ ipc = "pages"
    /\ page_i >= total_pages
    /\ doc_i' = doc_i + 1
    /\ ipc' = "docs"
    /\ UNCHANGED <<prog, dir_ok, pdfs, doc_dir, total_pages, page_i,
                   chunk_counter, records, collection, loaded, args_b,
                   prompted, answer, error>>
    /\ UNCHANGED <<cfgVars, chunkVars>>

\* Line 233: process_documents returns its records to the main that called.
ProcessDocumentsReturn ==
    /\ ipc = "docs"
    /\ doc_i > Len(pdfs)
    /\ ipc' = IF prog = "index_main" THEN "indexed" ELSE "prompt"
    /\ UNCHANGED <<prog, dir_ok, pdfs, doc_dir, doc_i, total_pages, page_i,
                   chunk_counter, records, collection, loaded, args_b,
                   prompted, answer, error>>
    /\ UNCHANGED <<cfgVars, chunkVars>>

\* indexPipeline.main, lines 247-258.  The main first looks into the
\* collection at line 251: what it holds from earlier runs is drawn here.
IndexMainLoad ==
    /\ ipc = "indexed"
    /\ \E existing \in SUBSET PriorIds :
        IF records # <<>> /\ Cardinality(existing) < Len(records)
        THEN LET res == load_data_to_chroma(existing, records)
             IN /\ collection' = res.collection
                /\ loaded' = [called |-> TRUE, n |-> Len(records),
                              ret |-> res.ret]
        ELSE /\ collection' = existing
             /\ UNCHANGED loaded
    /\ ipc' = "returned"
    /\ UNCHANGED <<prog, dir_ok, pdfs, doc_dir, doc_i, total_pages, page_i,
                   chunk_counter, records, args_b, prompted, answer, error>>
    /\ UNCHANGED <<cfgVars, chunkVars>>

\* retrievalPipeline.main, lines 164-172: the prompt; the input is cancelled,
\* blank, or a question.
Prompt ==
    /\ ipc = "prompt"
    /\ prompted' = TRUE
    /\ \E input \in {"cancelled", "blank", "question"} :
        IF input = "question"
        THEN /\ ipc' = "query"
             /\ UNCHANGED answer
        ELSE /\ ipc' = "returned"
             /\ answer' = "empty"
    /\ UNCHANGED <<prog, dir_ok, pdfs, doc_dir, doc_i, total_pages, page_i,
                   chunk_counter, records, collection, loaded, args_b, error>>
    /\ UNCHANGED <<cfgVars, chunkVars>>

\* Lines 174-194: the query and the call of the generator, whose failure is
\* caught and turned into an empty answer.
QueryAndAnswer ==
    /\ ipc = "query"
    /\ \E generated \in BOOLEAN :
        answer' = IF generated THEN "text" ELSE "empty"
    /\ ipc' = "returned"
    /\ UNCHANGED <<prog, dir_ok, pdfs, doc_dir, doc_i, total_pages, page_i,
                   chunk_counter, records, collection, loaded, args_b,
                   prompted, error>>
    /\ UNCHANGED <<cfgVars, chunkVars>>

NextIndex ==
    \/ IndexMainStart
    \/ RetrievalMainStart
    \/ ProcessDocumentsEnter
    \/ ExtractFails
    \/ ExtractPages
    \/ ProcessPage
    \/ EndPages
    \/ ProcessDocumentsReturn
    \/ IndexMainLoad
    \/ Prompt
    \/ QueryAndAnswer

----------------------------------------------------------------------------
(* The specifications *)

\* The page pipeline on every page text and configuration within the bounds.
Init == ConfigInit /\ ChunkInit /\ IndexIdle

Next ==
    \/ StripPage
    \/ CallSplit
    \/ StepSentence
    \/ EndLoop
    \/ TailMerge

Spec == Init /\ [][Next]_vars

\* A run of one of the two mains.
InitIndex == IndexConfigInit /\ ChunkIdle /\ IndexInit

SpecIndex == InitIndex /\ [][NextIndex]_vars

----------------------------------------------------------------------------
(* Properties of the page pipeline, checked under Spec *)

Returned == cpc = "done"

\* C1. Size bound: every chunk that build_chunks_from_sentences returns has
\* at most CHUNK_MAX_CHARS characters.
C1_SizeBound ==
    Returned => \A i \in 1..Len(chunks) : Len(chunks[i]) <= CHUNK_MAX_CHARS

\* A boundary of the overflow path whose two chunks the tail merge left as
\* they were built.
IntactBoundary(i) ==
    /\ i \in seeded
    /\ i + 1 <= Len(chunks)
    /\ chunks[i] = built[i]
    /\ chunks[i + 1] = built[i + 1]

\* s[:k]
FirstChars(s, k) ==
    IF k >= Len(s) THEN s ELSE SubSeq(s, 1, k)

\* The overlap a chunk can give: CHUNK_OVERLAP_CHARS characters, or all of it
\* when it is shorter.
OverlapWidth(chunk) ==
    IF Len(chunk) < CHUNK_OVERLAP_CHARS THEN Len(chunk)
    ELSE CHUNK_OVERLAP_CHARS

\* C2. Overlap correctness: at every boundary the overflow path produced, the
\* first k characters of chunk i+1 are the last k characters of chunk i
\* (k = CHUNK_OVERLAP_CHARS, or the whole of chunk i when it is shorter).
C2_OverlapMatches ==
    Returned =>
        \A i \in 1..Len(chunks) :
            IntactBoundary(i) =>
                FirstChars(chunks[i + 1], OverlapWidth(chunks[i]))
                    = LastChars(chunks[i], OverlapWidth(chunks[i]))

RECURSIVE Concat(_)
Concat(parts) ==
    IF parts = <<>> THEN <<>> ELSE Head(parts) \o Concat(Tail(parts))

\* Number of fixed-width slices of a sentence of length n.
SliceCount(n) == (n + CHUNK_MAX_CHARS - 1) \div CHUNK_MAX_CHARS

\* The sentences from the n-th on are found in the chunks in order, reading
\* from position pos of chunk j: a sentence that fits occurs whole in a chunk
\* (text before it, such as an overlap prefix, is passed over), an oversized
\* sentence is the concatenation of consecutive chunks.
RECURSIVE CoveredFrom(_, _, _, _, _)
CoveredFrom(sents, cs, n, j, pos) ==
    IF n > Len(sents) THEN TRUE
    ELSE LET s == sents[n] IN
         IF Len(s) <= CHUNK_MAX_CHARS
         THEN \E jj \in j..Len(cs) :
                \E p \in 1..(Len(cs[jj]) + 1) :
                    /\ jj > j \/ p >= pos
                    /\ p + Len(s) - 1 <= Len(cs[jj])
                    /\ SubSeq(cs[jj], p, p + Len(s) - 1) = s
                    /\ CoveredFrom(sents, cs, n + 1, jj, p + Len(s))
         ELSE \E jj \in j..Len(cs) :
                /\ jj > j \/ pos = 1
                /\ jj + SliceCount(Len(s)) - 1 <= Len(cs)
                /\ Concat(SubSeq(cs, jj, jj + SliceCount(Len(s)) - 1)) = s
                /\ CoveredFrom(sents, cs, n + 1, jj + SliceCount(Len(s)), 1)

\* C3. Coverage: for a page text that is not blank, the chunks returned by
\* chunk_page_text hold every sentence of split_into_sentences, in order:
\* whole inside a chunk, or as consecutive hard-split chunks.
C3_Coverage ==
    (Returned /\ Strip(page_text) # <<>>) =>
        CoveredFrom(sentences, chunks, 1, 1, 1)

\* The part of C3 that holds of the code: pages none of whose sentences is
\* oversized.
C3_CoverageWithoutOversized ==
    (Returned /\ Strip(page_text) # <<>>
        /\ \A n \in 1..Len(sentences) : Len(sentences[n]) <= CHUNK_MAX_CHARS)
    => CoveredFrom(sentences, chunks, 1, 1, 1)

\* C5. Oversized-sentence split: one sentence of length 3 * CHUNK_MAX_CHARS
\* alone in the input gives exactly three chunks, the first two of size
\* CHUNK_MAX_CHARS and the last no longer than that.
C5_OversizedSplit ==
    (Returned /\ Len(sentences) = 1
        /\ Len(sentences[1]) = 3 * CHUNK_MAX_CHARS)
    => /\ Len(chunks) = 3
       /\ Len(chunks[1]) = CHUNK_MAX_CHARS
       /\ Len(chunks[2]) = CHUNK_MAX_CHARS
       /\ Len(chunks[3]) <= CHUNK_MAX_CHARS

Blank(text) == Strip(text) = <<>>

\* C6 as stated: chunk_page_text yields zero chunks for a blank page text.
C6_BlankPageZeroChunks ==
    (Returned /\ Blank(page_text)) => chunks = <<>>

\* C6 as amended: a blank page yields zero chunks in process_documents, which
\* skips it before chunk_page_text is called; chunk_page_text called on a
\* blank text returns one or more chunks, each the empty string.
C6_BlankPageSkipped ==
    /\ (caller = "process_documents" /\ Blank(page_raw)
            /\ cpc \in {"skipped", "done"})
       => chunks = <<>>
    /\ (caller = "chunk_page_text" /\ Blank(page_text) /\ Returned)
       => /\ Len(chunks) >= 1
          /\ \A i \in 1..Len(chunks) : chunks[i] = <<>>

C6_Witness ==
    /\ caller = "process_documents"
    /\ page_raw # <<>>
    /\ Blank(page_raw)
    /\ cpc = "skipped"
    /\ chunks = <<>>

\* The tail merge applies to the built chunks.
MergeDue ==
    /\ Len(built) > 1
    /\ Len(built[Len(built)]) < CHUNK_MIN_CHARS
    /\ Len(built[Len(built) - 1]) + 1 + Len(built[Len(built)])
            <= CHUNK_MAX_CHARS

\* C7. Tail merge: when the built sequence has more than one chunk, the last
\* is shorter than CHUNK_MIN_CHARS and the two last joined by a space fit in
\* CHUNK_MAX_CHARS, the returned sequence is one shorter, ends with the
\* trimmed join, and keeps the earlier chunks.
C7_TailMerge ==
    (Returned /\ MergeDue) =>
        LET n == Len(built) IN
        /\ Len(chunks) = n - 1
        /\ chunks[n - 1] = Strip(built[n - 1] \o <<" ">> \o built[n])
        /\ \A i \in 1..(n - 2) : chunks[i] = built[i]

C7_Witness ==
    /\ Returned
    /\ MergeDue
    /\ Len(built) >= 3
    /\ Len(chunks) = Len(built) - 1
    /\ built[Len(built)] # <<>>

----------------------------------------------------------------------------
(* Properties of the two mains, checked under SpecIndex *)

\* C4. Non-empty chunks: every record process_documents emits has a text of
\* at least one character, trimmed.
C4_RecordsNonEmpty ==
    \A i \in 1..Len(records) :
        /\ Len(records[i].text) >= 1
        /\ Strip(records[i].text) = records[i].text

\* The retrieval main took the branch of lines 160-162.
RebuildTaken == prog = "retrieval_main" /\ doc_dir # "unset"

\* C8. Rebuild before query: a retrieval run started with -b or on an empty
\* collection loads the records into the collection before it prompts, and
\* does not end before it has prompted.
C8_RebuildBeforeQuery ==
    RebuildTaken =>
        /\ prompted => loaded.called
        /\ ipc \in {"returned", "crashed"} => (prompted /\ error = "none")

\* C9. load_data_to_chroma returns the number of items it was given.
C9_LoadReturnsItemCount ==
    loaded.called => loaded.ret = loaded.n

\* C10. Record identifiers are unique within the records of one run of
\* process_documents.
C10_UniqueIds ==
    \A i, j \in 1..Len(records) :
        i # j => records[i].id # records[j].id

\* A finished run over two documents, one of them with two pages that gave
\* records, one page with two chunks.
C10_Witness ==
    /\ ipc = "returned"
    /\ prog = "index_main"
    /\ \E i, j \in 1..Len(records) :
        records[i].meta.source_name # records[j].meta.source_name
    /\ \E i, j \in 1..Len(records) :
        /\ records[i].meta.source_name = records[j].meta.source_name
        /\ records[i].meta.page_number # records[j].meta.page_number
    /\ \E i, j \in 1..Len(records) :
        /\ i # j
        /\ records[i].meta.source_name = records[j].meta.source_name
        /\ records[i].meta.page_number = records[j].meta.page_number

====
